---- MODULE Spec2Model ----
(***************************************************************************)
(* Marker board of whatwe.world (src/vite.config.js, component App):       *)
(* the local marker list fed by the initial fetch and the realtime INSERT  *)
(* feed, the derived country filter, and the placement flow (map click,    *)
(* reverse geocode, form, submit, cancel) with its sessionStorage guard.   *)
(* The remote store, the realtime channel and the geocoder are modelled as *)
(* the environment: requests and replies in flight are explicit state.     *)
(***************************************************************************)
EXTENDS Integers, Sequences, FiniteSets

\* ---- bounds of the model ----
MaxOther == 3      \* records written to the remote store by other clients
MaxInserts == 2    \* inserts of this session in flight (request or reply)
MaxGeo == 2        \* reverse-geocode lookups of this session in flight

\* ---- values ----
\* JS null / undefined in a text column or in a geocoder reply
Null == "<null>"
\* useState(null) of clickedPos
NullPos == [null |-> TRUE]
\* e.latlng of a click: two coordinates of the map
Pos == {[lat |-> 10, lng |-> 20], [lat |-> -5, lng |-> 30]}
\* what the user can type in the two inputs
Names == {"", "Ann"}
Messages == {"", "Hi"}
\* address.country the geocoder holds for a coordinate
GeoCountry(p) == IF p.lat = 10 THEN "Wakanda" ELSE "Narnia"
\* the replies the geocoder can give to a lookup of p: a country, a body
\* without address.country, an empty country, or a failed request
GeoReplies(p) ==
  {[ok |-> TRUE, country |-> GeoCountry(p)],
   [ok |-> TRUE, country |-> Null],
   [ok |-> TRUE, country |-> ""],
   [ok |-> FALSE, country |-> Null]}
\* rows other clients write (without the id the store assigns)
OtherRecs ==
  {[lat |-> 10, lng |-> 20, name |-> "Bob", message |-> "Yo", country |-> "Wakanda"],
   [lat |-> -5, lng |-> 30, name |-> "Cy", message |-> "Hey", country |-> "Narnia"],
   [lat |-> 1, lng |-> 1, name |-> "Di", message |-> "Oh", country |-> ""],
   [lat |-> 2, lng |-> 2, name |-> "Ed", message |-> "Ah", country |-> Null]}

VARIABLES
  markers,          \* useState([]) : the local marker list
  filteredMarkers,  \* useState([]) : the displayed list
  clickedPos,       \* useState(null) : pending click, the modal's condition
  country,          \* useState('')
  name,             \* useState('')
  message,          \* useState('')
  selectedCountry,  \* useState('all')
  countries,        \* useState([])
  hasPlacedMark,    \* sessionStorage key 'hasPlacedMark' is present
  deriveDirty,      \* the [markers, selectedCountry] effect is scheduled
  alertMsg,         \* the blocking alert() on screen, or "none"
  mounted,          \* App is mounted
  store,            \* remote table markers, in insertion order
  mine,             \* ids of the rows this session wrote
  fetchState,       \* select('*'): sent, replyOk, replyErr, done, failed
  fetchData,        \* the data of the select's reply
  pushed,           \* ids of the rows whose INSERT event was sent to this client
  channel,          \* realtime channel: joining, joined, removed
  feed,             \* INSERT events in flight to this client (ids, FIFO)
  geoPending,       \* outstanding reverse-geocode lookups per coordinate
  insertReqs,       \* insert requests in flight to the store
  replyOk,          \* insert replies without error in flight
  replyErr          \* insert replies with error in flight

vars == <<markers, filteredMarkers, clickedPos, country, name, message,
          selectedCountry, countries, hasPlacedMark, deriveDirty, alertMsg,
          mounted, store, mine, fetchState, fetchData, pushed,
          channel, feed, geoPending, insertReqs, replyOk, replyErr>>

formVars == <<clickedPos, country, name, message>>
viewVars == <<markers, filteredMarkers, selectedCountry, countries, deriveDirty>>
remoteVars == <<store, mine, fetchState, fetchData, pushed, channel, feed>>
insertVars == <<insertReqs, replyOk, replyErr>>

\* ---- helpers ----
\* Boolean(c) of filter(Boolean) and of the || operator, on a text value
Truthy(c) == c # "" /\ c # Null

\* [...new Set(s)] : the first occurrence of every value, in order
RECURSIVE UniqFrom(_, _)
UniqFrom(s, acc) ==
  IF s = <<>> THEN acc
  ELSE IF \E i \in 1..Len(acc) : acc[i] = Head(s)
       THEN UniqFrom(Tail(s), acc)
       ELSE UniqFrom(Tail(s), Append(acc, Head(s)))

CountryOf(m) == m.country
MapCountry(ms) == [i \in 1..Len(ms) |-> CountryOf(ms[i])]

\* line 72 without .filter(Boolean)
uniqueCountriesNoFilter(ms) == UniqFrom(MapCountry(ms), <<>>)

\* line 72
uniqueCountries(ms) == UniqFrom(SelectSeq(MapCountry(ms), Truthy), <<>>)

\* lines 76-80 with the matching rows put in front of the list instead of
\* being the only ones kept
filteredSorted(ms, sel) ==
  IF sel # "all"
  THEN SelectSeq(ms, LAMBDA m : m.country = sel)
       \o SelectSeq(ms, LAMBDA m : m.country # sel)
  ELSE ms

\* lines 76-80
filtered(ms, sel) ==
  IF sel # "all" THEN SelectSeq(ms, LAMBDA m : m.country = sel) ELSE ms

\* data?.address?.country || 'Unknown', and the catch branch
geoResult(r) == IF r.ok /\ Truthy(r.country) THEN r.country ELSE "Unknown"

Range(s) == {s[i] : i \in 1..Len(s)}
SeqsUpTo(S, n) == UNION {[1..k -> S] : k \in 0..n}
WithId(r, i) ==
  [id |-> i, lat |-> r.lat, lng |-> r.lng, name |-> r.name,
   message |-> r.message, country |-> r.country]
RemoveAt(s, i) == [j \in 1..(Len(s) - 1) |-> IF j < i THEN s[j] ELSE s[j + 1]]
RECURSIVE SumOver(_, _)
SumOver(f, S) ==
  IF S = {} THEN 0
  ELSE LET x == CHOOSE y \in S : TRUE IN f[x] + SumOver(f, S \ {x})
GeoTotal == SumOver(geoPending, Pos)
InFlight == Len(insertReqs) + replyOk + replyErr
OtherCount == Len(store) - Cardinality(mine)
\* the client runs handlers: mounted, and no alert() blocks the event loop
Running == mounted /\ alertMsg = "none"
FormOpen == clickedPos # NullPos

\* ---- initial state: App mounted, first effects run ----
Init ==
  /\ markers = <<>>
  /\ filteredMarkers = <<>>
  /\ clickedPos = NullPos
  /\ country = ""
  /\ name = ""
  /\ message = ""
  /\ selectedCountry = "all"
  /\ countries = <<>>
  /\ hasPlacedMark = FALSE
  /\ deriveDirty = FALSE
  /\ alertMsg = "none"
  /\ mounted = TRUE
  /\ \E s \in SeqsUpTo(OtherRecs, MaxOther) :
       store = [i \in 1..Len(s) |-> WithId(s[i], i)]
  /\ mine = {}
  /\ fetchState = "sent"
  /\ fetchData = <<>>
  /\ pushed = {}
  /\ channel = "joining"
  /\ feed = <<>>
  /\ geoPending = [p \in Pos |-> 0]
  /\ insertReqs = <<>>
  /\ replyOk = 0
  /\ replyErr = 0

\* ---- remote store and realtime service ----
\* the store answers select('*')
ServerSelect(ok) ==
  /\ mounted
  /\ fetchState = "sent"
  /\ IF ok THEN fetchState' = "replyOk" /\ fetchData' = store
           ELSE fetchState' = "replyErr" /\ fetchData' = <<>>
  /\ UNCHANGED <<formVars, viewVars, hasPlacedMark, alertMsg, mounted, store,
                 mine, pushed, channel, feed, geoPending, insertVars>>

\* the realtime service completes .subscribe()
ServerJoin ==
  /\ mounted
  /\ channel = "joining"
  /\ channel' = "joined"
  /\ UNCHANGED <<formVars, viewVars, hasPlacedMark, alertMsg, mounted, store,
                 mine, fetchState, fetchData, pushed, feed, geoPending,
                 insertVars>>

\* another client inserts a row; the service pushes the INSERT event
OtherInsert(r) ==
  /\ mounted
  /\ OtherCount < MaxOther
  /\ store' = Append(store, WithId(r, Len(store) + 1))
  /\ IF channel = "joined"
     THEN feed' = Append(feed, Len(store) + 1)
          /\ pushed' = pushed \cup {Len(store) + 1}
     ELSE UNCHANGED <<feed, pushed>>
  /\ UNCHANGED <<formVars, viewVars, hasPlacedMark, alertMsg, mounted, mine,
                 fetchState, fetchData, channel, geoPending, insertVars>>

\* the store handles one insert request of this session
ServerInsert(i, ok) ==
  /\ mounted
  /\ i \in 1..Len(insertReqs)
  /\ insertReqs' = RemoveAt(insertReqs, i)
  /\ IF ok
     THEN /\ store' = Append(store, WithId(insertReqs[i], Len(store) + 1))
          /\ mine' = mine \cup {Len(store) + 1}
          /\ IF channel = "joined"
             THEN feed' = Append(feed, Len(store) + 1)
                  /\ pushed' = pushed \cup {Len(store) + 1}
             ELSE UNCHANGED <<feed, pushed>>
          /\ replyOk' = replyOk + 1
          /\ UNCHANGED replyErr
     ELSE /\ replyErr' = replyErr + 1
          /\ UNCHANGED <<store, mine, feed, pushed, replyOk>>
  /\ UNCHANGED <<formVars, viewVars, hasPlacedMark, alertMsg, mounted,
                 fetchState, fetchData, channel, geoPending>>

\* ---- App: fetch + realtime effect ----
\* lines 44-48 without the test of error at line 48
fetchMarkersNoCheck ==
  /\ Running
  /\ fetchState \in {"replyOk", "replyErr"}
  /\ markers' = fetchData
  /\ deriveDirty' = TRUE
  /\ fetchState' = IF fetchState = "replyOk" THEN "done" ELSE "failed"
  /\ UNCHANGED <<filteredMarkers, selectedCountry, countries, formVars,
                 hasPlacedMark, alertMsg, mounted, store, mine, fetchData,
                 pushed, channel, feed, geoPending, insertVars>>

\* lines 44-48: continuation of fetchMarkers
fetchMarkers ==
  /\ Running
  /\ fetchState \in {"replyOk", "replyErr"}
  /\ IF fetchState = "replyOk"
     THEN markers' = fetchData /\ deriveDirty' = TRUE /\ fetchState' = "done"
     ELSE UNCHANGED <<markers, deriveDirty>> /\ fetchState' = "failed"
  /\ UNCHANGED <<filteredMarkers, selectedCountry, countries, formVars,
                 hasPlacedMark, alertMsg, mounted, store, mine, fetchData,
                 pushed, channel, feed, geoPending, insertVars>>

\* lines 58-60 with the new row put in front: [payload.new, ...prev]
onInsertPrepend ==
  /\ Running
  /\ channel = "joined"
  /\ feed # <<>>
  /\ markers' = <<store[Head(feed)]>> \o markers
  /\ feed' = Tail(feed)
  /\ deriveDirty' = TRUE
  /\ UNCHANGED <<filteredMarkers, selectedCountry, countries, formVars,
                 hasPlacedMark, alertMsg, mounted, store, mine, fetchState,
                 fetchData, pushed, channel, geoPending, insertVars>>

\* lines 58-60: the INSERT callback
onInsert ==
  /\ Running
  /\ channel = "joined"
  /\ feed # <<>>
  /\ markers' = Append(markers, store[Head(feed)])
  /\ feed' = Tail(feed)
  /\ deriveDirty' = TRUE
  /\ UNCHANGED <<filteredMarkers, selectedCountry, countries, formVars,
                 hasPlacedMark, alertMsg, mounted, store, mine, fetchState,
                 fetchData, pushed, channel, geoPending, insertVars>>

\* lines 64-66: cleanup of the effect when App unmounts
removeChannel ==
  /\ mounted
  /\ mounted' = FALSE
  /\ channel' = "removed"
  /\ UNCHANGED <<formVars, viewVars, hasPlacedMark, alertMsg, store, mine,
                 fetchState, fetchData, pushed, feed, geoPending, insertVars>>

\* ---- App: derive effect, lines 70-83 ----
deriveEffect ==
  /\ Running
  /\ deriveDirty
  /\ countries' = uniqueCountries(markers)
  /\ filteredMarkers' = filtered(markers, selectedCountry)
  /\ deriveDirty' = FALSE
  /\ UNCHANGED <<markers, selectedCountry, formVars, hasPlacedMark, alertMsg,
                 mounted, remoteVars, geoPending, insertVars>>

\* lines 154-171: the select's onChange, over the rendered options
setSelectedCountry(v) ==
  /\ Running
  /\ v \in {"all"} \cup Range(countries)
  /\ v # selectedCountry
  /\ selectedCountry' = v
  /\ deriveDirty' = TRUE
  /\ UNCHANGED <<markers, filteredMarkers, countries, formVars, hasPlacedMark,
                 alertMsg, mounted, remoteVars, geoPending, insertVars>>

\* ---- App: placement flow ----
\* lines 92-98 without the sessionStorage guard of lines 87-90
handleMapClickNoGuard(p) ==
  /\ Running
  /\ GeoTotal < MaxGeo
  /\ clickedPos' = p
  /\ geoPending' = [geoPending EXCEPT ![p] = @ + 1]
  /\ UNCHANGED <<alertMsg, country, name, message, viewVars, hasPlacedMark,
                 mounted, remoteVars, insertVars>>

\* lines 86-98: handleMapClick up to the await of fetch()
handleMapClick(p) ==
  /\ Running
  /\ IF hasPlacedMark
     THEN /\ alertMsg' = "You already placed a mark in this session"
          /\ UNCHANGED <<clickedPos, geoPending>>
     ELSE /\ GeoTotal < MaxGeo
          /\ clickedPos' = p
          /\ geoPending' = [geoPending EXCEPT ![p] = @ + 1]
          /\ UNCHANGED alertMsg
  /\ UNCHANGED <<country, name, message, viewVars, hasPlacedMark, mounted,
                 remoteVars, insertVars>>

\* lines 99-103: the continuation of handleMapClick for a lookup of p
geocodeReply(p, r) ==
  /\ Running
  /\ geoPending[p] > 0
  /\ r \in GeoReplies(p)
  /\ geoPending' = [geoPending EXCEPT ![p] = @ - 1]
  /\ country' = geoResult(r)
  /\ UNCHANGED <<clickedPos, name, message, viewVars, hasPlacedMark, alertMsg,
                 mounted, remoteVars, insertVars>>

\* line 227
setName(v) ==
  /\ Running
  /\ FormOpen
  /\ v # name
  /\ name' = v
  /\ UNCHANGED <<clickedPos, country, message, viewVars, hasPlacedMark,
                 alertMsg, mounted, remoteVars, geoPending, insertVars>>

\* line 242
setMessage(v) ==
  /\ Running
  /\ FormOpen
  /\ v # message
  /\ message' = v
  /\ UNCHANGED <<clickedPos, country, name, viewVars, hasPlacedMark,
                 alertMsg, mounted, remoteVars, geoPending, insertVars>>

\* lines 107-119 with the guard of line 108 written with && for ||
handleSubmitBothEmpty ==
  /\ Running
  /\ FormOpen
  /\ IF name = "" /\ message = ""
     THEN /\ alertMsg' = "Name and message required"
          /\ UNCHANGED insertReqs
     ELSE /\ InFlight < MaxInserts
          /\ insertReqs' = Append(insertReqs,
               [lat |-> clickedPos.lat, lng |-> clickedPos.lng, name |-> name,
                message |-> message, country |-> country])
          /\ UNCHANGED alertMsg
  /\ UNCHANGED <<formVars, viewVars, hasPlacedMark, mounted, remoteVars,
                 geoPending, replyOk, replyErr>>

\* lines 107-119 with the Place Marker button rendered outside the modal,
\* and clickedPos read with optional chaining
handleSubmitNoModal ==
  /\ Running
  /\ IF name = "" \/ message = ""
     THEN /\ alertMsg' = "Name and message required"
          /\ UNCHANGED insertReqs
     ELSE /\ InFlight < MaxInserts
          /\ insertReqs' = Append(insertReqs,
               [lat |-> IF FormOpen THEN clickedPos.lat ELSE 0,
                lng |-> IF FormOpen THEN clickedPos.lng ELSE 0,
                name |-> name, message |-> message, country |-> country])
          /\ UNCHANGED alertMsg
  /\ UNCHANGED <<formVars, viewVars, hasPlacedMark, mounted, remoteVars,
                 geoPending, replyOk, replyErr>>

\* lines 107-119: handleSubmit up to the await of insert()
handleSubmit ==
  /\ Running
  /\ FormOpen
  /\ IF name = "" \/ message = ""
     THEN /\ alertMsg' = "Name and message required"
          /\ UNCHANGED insertReqs
     ELSE /\ InFlight < MaxInserts
          /\ insertReqs' = Append(insertReqs,
               [lat |-> clickedPos.lat, lng |-> clickedPos.lng, name |-> name,
                message |-> message, country |-> country])
          /\ UNCHANGED alertMsg
  /\ UNCHANGED <<formVars, viewVars, hasPlacedMark, mounted, remoteVars,
                 geoPending, replyOk, replyErr>>

\* lines 121-130 without the return of line 124
insertFailedFallThrough ==
  /\ Running
  /\ replyErr > 0
  /\ replyErr' = replyErr - 1
  /\ alertMsg' = "Insert failed"
  /\ hasPlacedMark' = TRUE
  /\ clickedPos' = NullPos
  /\ name' = ""
  /\ message' = ""
  /\ UNCHANGED <<country, viewVars, mounted, remoteVars, geoPending,
                 insertReqs, replyOk>>

\* lines 121-125: the continuation of handleSubmit, insert returned an error
insertFailed ==
  /\ Running
  /\ replyErr > 0
  /\ replyErr' = replyErr - 1
  /\ alertMsg' = "Insert failed"
  /\ UNCHANGED <<formVars, viewVars, hasPlacedMark, mounted, remoteVars,
                 geoPending, insertReqs, replyOk>>

\* lines 127-130 with an optimistic append of the submitted record
insertDoneOptimistic ==
  /\ Running
  /\ replyOk > 0
  /\ replyOk' = replyOk - 1
  /\ hasPlacedMark' = TRUE
  /\ markers' = Append(markers,
       [id |-> 0, lat |-> 0, lng |-> 0, name |-> name, message |-> message,
        country |-> country])
  /\ deriveDirty' = TRUE
  /\ clickedPos' = NullPos
  /\ name' = ""
  /\ message' = ""
  /\ UNCHANGED <<country, filteredMarkers, selectedCountry, countries,
                 alertMsg, mounted, remoteVars, geoPending, insertReqs,
                 replyErr>>

\* lines 127-130: the continuation of handleSubmit, insert succeeded
insertDone ==
  /\ Running
  /\ replyOk > 0
  /\ replyOk' = replyOk - 1
  /\ hasPlacedMark' = TRUE
  /\ clickedPos' = NullPos
  /\ name' = ""
  /\ message' = ""
  /\ UNCHANGED <<country, viewVars, alertMsg, mounted, remoteVars, geoPending,
                 insertReqs, replyErr>>

\* line 287 with the Cancel button wired to the end of handleSubmit
\* (lines 127-130)
cancelAsDone ==
  /\ Running
  /\ FormOpen
  /\ hasPlacedMark' = TRUE
  /\ clickedPos' = NullPos
  /\ name' = ""
  /\ message' = ""
  /\ UNCHANGED <<country, viewVars, alertMsg, mounted, remoteVars, geoPending,
                 insertVars>>

\* line 287: the Cancel button
cancel ==
  /\ Running
  /\ FormOpen
  /\ clickedPos' = NullPos
  /\ UNCHANGED <<country, name, message, viewVars, hasPlacedMark, alertMsg,
                 mounted, remoteVars, geoPending, insertVars>>

\* the user closes the alert() box
dismissAlert ==
  /\ mounted
  /\ alertMsg # "none"
  /\ alertMsg' = "none"
  /\ UNCHANGED <<formVars, viewVars, hasPlacedMark, mounted, remoteVars,
                 geoPending, insertVars>>

MapClick == \E p \in Pos : handleMapClick(p)
GeocodeReply == \E p \in Pos : \E r \in GeoReplies(p) : geocodeReply(p, r)

\* the store and the feed, the derived view and the filter selection; rows
\* of any client enter the table through OtherInsert
NextView ==
  \/ \E ok \in BOOLEAN : ServerSelect(ok)
  \/ ServerJoin
  \/ \E r \in OtherRecs : OtherInsert(r)
  \/ fetchMarkers
  \/ onInsert
  \/ removeChannel
  \/ deriveEffect
  \/ \E v \in {"all"} \cup Range(countries) : setSelectedCountry(v)

\* the placement flow of this session and the store's handling of its inserts
NextFlow ==
  \/ \E i \in 1..Len(insertReqs) : \E ok \in BOOLEAN : ServerInsert(i, ok)
  \/ MapClick
  \/ GeocodeReply
  \/ \E v \in Names : setName(v)
  \/ \E v \in Messages : setMessage(v)
  \/ handleSubmit
  \/ insertFailed
  \/ insertDone
  \/ cancel
  \/ dismissAlert
  \/ removeChannel

Next == NextView \/ NextFlow

\* the whole component
Spec == Init /\ [][Next]_vars
\* the marker store and the country filter, fed by the clients of the table
SpecView == Init /\ [][NextView]_vars
\* the placement flow of a session that starts on an empty table
InitFlow == Init /\ store = <<>>
SpecFlow == InitFlow /\ [][NextFlow]_vars

\* ======================= properties =======================

\* C1: the number of marker records this session successfully writes to the
\* remote store never exceeds one, in any interleaving of clicks, submits,
\* cancels and replies.
C1_OneMarkerPerSession == Cardinality(mine) <= 1

\* C2: the success of an insert sets hasPlacedMark, the flag stays set, and
\* every map click made while it is set issues no reverse-geocode lookup and
\* no insert and leaves clickedPos, country, name, message and the marker
\* lists unchanged.
C2_ClickRefusedAfterSuccess ==
  [][/\ (replyOk' < replyOk => hasPlacedMark')
     /\ (hasPlacedMark => hasPlacedMark')
     /\ ((hasPlacedMark /\ MapClick) =>
           UNCHANGED <<geoPending, insertReqs, replyOk, replyErr, store,
                       clickedPos, country, name, message, markers,
                       filteredMarkers>>)]_vars

\* a click was refused after a successful insert of this session
C2_Witness ==
  /\ hasPlacedMark
  /\ mine # {}
  /\ alertMsg = "You already placed a mark in this session"

\* C3: every insert issued by handleSubmit carries a country that is the
\* reverse-geocode result for the coordinate it carries, or "Unknown"; it is
\* never empty and never the result of a lookup for another coordinate.
C3_InsertCountryOfItsCoordinate ==
  \A i \in 1..Len(insertReqs) :
    LET r == insertReqs[i] IN
      /\ r.name # "" /\ r.message # ""
      /\ [lat |-> r.lat, lng |-> r.lng] \in Pos
      /\ r.country \in {GeoCountry([lat |-> r.lat, lng |-> r.lng]), "Unknown"}

\* C4: a submit with an empty name or an empty message issues no insert,
\* leaves hasPlacedMark, clickedPos, name, message and country unchanged
\* (the form stays open), and no request or written row of this session has
\* an empty name or message.
C4_EmptySubmitWritesNothing ==
  /\ [](/\ \A i \in 1..Len(insertReqs) :
             insertReqs[i].name # "" /\ insertReqs[i].message # ""
        /\ \A id \in mine : store[id].name # "" /\ store[id].message # "")
  /\ [][(handleSubmit /\ (name = "" \/ message = "")) =>
          /\ UNCHANGED <<insertReqs, replyOk, replyErr, store, mine,
                         hasPlacedMark, clickedPos, name, message, country>>
          /\ clickedPos' # NullPos]_vars

\* a submit was rejected for an empty field, with the form still open
C4_Witness ==
  /\ alertMsg = "Name and message required"
  /\ FormOpen
  /\ name = "" \/ message = ""

\* C5: the failure of an insert leaves hasPlacedMark, clickedPos, name,
\* message and country as they were (an open form stays open), and a submit
\* of a filled form issues one new insert for the pending coordinate.
C5_FailedInsertKeepsForm ==
  [][/\ (replyErr' < replyErr =>
           UNCHANGED <<hasPlacedMark, clickedPos, name, message, country,
                       insertReqs, store, mine>>)
     /\ ((handleSubmit /\ name # "" /\ message # "") =>
           /\ Len(insertReqs') = Len(insertReqs) + 1
           /\ insertReqs'[Len(insertReqs')].lat = clickedPos.lat
           /\ insertReqs'[Len(insertReqs')].lng = clickedPos.lng
           /\ insertReqs'[Len(insertReqs')].name = name
           /\ insertReqs'[Len(insertReqs')].message = message)]_vars

\* an insert failed: the flag is unset and the filled form is still open
C5_Witness ==
  /\ alertMsg = "Insert failed"
  /\ ~hasPlacedMark
  /\ FormOpen
  /\ name # "" /\ message # ""

\* C6: in every state the displayed list holds only rows of the remote store
\* that match the selection: with selectedCountry not "all", every displayed
\* marker has that country, also between a change and the recomputation.
C6_DisplayedMatchSelection ==
  \A i \in 1..Len(filteredMarkers) :
    /\ filteredMarkers[i] \in Range(store)
    /\ selectedCountry # "all" =>
         filteredMarkers[i].country = selectedCountry

\* C7: when the initial fetch has succeeded and every row of the store is in
\* the fetched snapshot or was pushed on the feed, then once every pushed
\* event is delivered every row of the store is in the local marker list.
C7_EventuallyConsistent ==
  (/\ mounted
   /\ fetchState = "done"
   /\ feed = <<>>
   /\ \A id \in 1..Len(store) :
        id \in pushed \/ \E i \in 1..Len(fetchData) : fetchData[i].id = id)
  => \A id \in 1..Len(store) : \E i \in 1..Len(markers) : markers[i].id = id

\* C8: the local marker list is append-only: every step keeps every entry at
\* its place, the reply of the initial fetch included.
C8_MarkersAppendOnly ==
  [][/\ Len(markers') >= Len(markers)
     /\ \A i \in 1..Len(markers) : markers'[i] = markers[i]]_vars

\* C9: once the derive step has run, the visible list is the whole marker
\* list when the selection is "all", and otherwise exactly the markers of
\* the selected country, in their order in the marker list.
C9_VisibleIsOrderedSelection ==
  ~deriveDirty =>
    IF selectedCountry = "all"
    THEN filteredMarkers = markers
    ELSE LET idx == {i \in 1..Len(markers) :
                       markers[i].country = selectedCountry}
             kth(k) == CHOOSE i \in idx :
                         Cardinality({j \in idx : j < i}) = k - 1
         IN /\ Len(filteredMarkers) = Cardinality(idx)
            /\ \A k \in 1..Len(filteredMarkers) :
                 filteredMarkers[k] = markers[kth(k)]

\* a derived view of a country with two matching markers around another one
C9_Witness ==
  /\ ~deriveDirty
  /\ selectedCountry # "all"
  /\ Len(filteredMarkers) >= 2
  /\ \E i, j, k \in 1..Len(markers) :
       /\ i < j /\ j < k
       /\ markers[i].country = selectedCountry
       /\ markers[j].country # selectedCountry
       /\ markers[k].country = selectedCountry

\* C10: once the derive step has run, the country list holds exactly the
\* non-empty, defined country values of the marker list, each once, in the
\* order of their first occurrence.
C10_CountriesDistinctFirstSeen ==
  ~deriveDirty =>
    LET first(c) == CHOOSE i \in 1..Len(markers) :
                      /\ markers[i].country = c
                      /\ \A j \in 1..(i - 1) : markers[j].country # c
    IN /\ \A k \in 1..Len(countries) :
            countries[k] # "" /\ countries[k] # Null
       /\ \A k, l \in 1..Len(countries) :
            k # l => countries[k] # countries[l]
       /\ Range(countries) =
            {markers[i].country : i \in 1..Len(markers)} \ {"", Null}
       /\ \A k, l \in 1..Len(countries) :
            k < l => first(countries[k]) < first(countries[l])

\* a derived list of two countries over markers with a repeated country and
\* with an empty or undefined one
C10_Witness ==
  /\ ~deriveDirty
  /\ Len(countries) >= 2
  /\ \E i \in 1..Len(markers) : markers[i].country \in {"", Null}
  /\ \E i, j \in 1..Len(markers) :
       i < j /\ markers[i].country = markers[j].country
             /\ markers[i].country \notin {"", Null}

\* C11: hasPlacedMark is set only by the success of an insert of this
\* session and is never cleared: when the flag is set, this session has
\* written a row; the flag changes only in the step that handles an insert
\* reply without error; and it never goes from set to unset.
C11_FlagOnlyBySuccess ==
  /\ [](hasPlacedMark => mine # {})
  /\ [][/\ (hasPlacedMark => hasPlacedMark')
        /\ (hasPlacedMark' # hasPlacedMark => replyOk' < replyOk)]_vars

\* the flag is set after a successful insert of this session
C11_Witness ==
  /\ hasPlacedMark
  /\ mine # {}
  /\ replyOk = 0

\* C12: Cancel from the open form sets clickedPos to null, issues no insert,
\* does not set hasPlacedMark, and leaves the marker list and the filter
\* selection unchanged.
C12_CancelWritesNothing ==
  [][/\ (cancel =>
           /\ clickedPos' = NullPos
           /\ UNCHANGED <<insertReqs, replyOk, replyErr, store, mine,
                          hasPlacedMark, markers, filteredMarkers,
                          selectedCountry>>)
     /\ ((FormOpen /\ clickedPos' = NullPos /\ replyOk' = replyOk) =>
           UNCHANGED <<insertReqs, store, mine, hasPlacedMark, markers,
                       selectedCountry>>)]_vars

\* a filled form was cancelled: the form is closed, the flag is unset and
\* nothing was sent
C12_Witness ==
  /\ clickedPos = NullPos
  /\ ~hasPlacedMark
  /\ name # ""
  /\ InFlight = 0
  /\ mine = {}

\* C13: when the initial fetch returns an error, its handling changes
\* nothing but the state of the fetch: the local marker list keeps what the
\* feed appended (and holds nothing else), no second select is issued, and
\* every other part of the state, on which clicks and feed events depend, is
\* left as it was.
C13_FetchErrorIgnored ==
  /\ [](fetchState \in {"replyErr", "failed"} =>
          \A i \in 1..Len(markers) : markers[i].id \in pushed)
  /\ [][/\ (fetchState = "replyErr" /\ fetchState' # fetchState =>
              /\ fetchState' = "failed"
              /\ UNCHANGED <<formVars, viewVars, hasPlacedMark, alertMsg,
                             mounted, store, mine, pushed, channel, feed,
                             geoPending, insertVars>>)
        /\ (fetchState \in {"replyOk", "replyErr", "done", "failed"} =>
              fetchState' # "sent")
        /\ (fetchState = "failed" => fetchState' = "failed")]_vars

\* the fetch failed and the list holds a row the feed delivered
C13_Witness ==
  /\ fetchState = "failed"
  /\ markers # <<>>
  /\ feed # <<>>
  /\ mounted

\* C14: the channel is subscribed once and removed once (joining, then
\* joined, then removed, never back); every delivered INSERT event appends
\* exactly the event's row to the end of the local marker list; after the
\* removal no step changes the local marker list.
C14_SubscribeOnceAppendEach ==
  [][/\ (channel' # channel =>
           \/ channel = "joining" /\ channel' \in {"joined", "removed"}
           \/ channel = "joined" /\ channel' = "removed")
     /\ (Len(feed') < Len(feed) =>
           /\ channel = "joined"
           /\ feed' = Tail(feed)
           /\ markers' = Append(markers, store[Head(feed)]))
     /\ (channel = "removed" => UNCHANGED <<markers, channel>>)]_vars

\* the channel was removed with an event undelivered, after another event
\* was appended to a non-empty list
C14_Witness ==
  /\ channel = "removed"
  /\ feed # <<>>
  /\ Len(markers) >= 2
  /\ markers[Len(markers)].id \in pushed

\* C16: the form is open only when the reverse-geocode lookup for the
\* pending coordinate has resolved or failed: while that lookup is
\* outstanding the form is not shown.
C16_FormAfterGeocode ==
  FormOpen => geoPending[clickedPos] = 0

\* C17: whenever the form opens, its name and message fields are empty, so
\* no value typed before a cancel can be written by a later submit.
C17_FormOpensEmpty ==
  [][(~FormOpen /\ clickedPos' # NullPos) =>
       name' = "" /\ message' = ""]_vars

\* C18: whenever the form is open and no reverse-geocode lookup is
\* outstanding, the country in the form is the result of the lookup for
\* clickedPos, or "Unknown".
C18_CountryOfPendingCoordinate ==
  (FormOpen /\ GeoTotal = 0) =>
    country \in {GeoCountry(clickedPos), "Unknown"}

\* C19: the local marker list never holds two entries with the same id.
C19_NoDuplicateIds ==
  \A i, j \in 1..Len(markers) : i # j => markers[i].id # markers[j].id

\* C20: handleSubmit runs only while clickedPos is non-null, and every
\* insert request and every row written by this session carries the lat and
\* lng of a clicked coordinate, also after a cancel or an earlier successful
\* insert has set clickedPos to null.
C20_SubmitHasCoordinate ==
  /\ [](/\ \A i \in 1..Len(insertReqs) :
             [lat |-> insertReqs[i].lat, lng |-> insertReqs[i].lng] \in Pos
        /\ \A id \in mine :
             [lat |-> store[id].lat, lng |-> store[id].lng] \in Pos)
  /\ [][handleSubmit => clickedPos # NullPos]_vars

\* an insert is in flight with its coordinate while clickedPos is null again
C20_Witness ==
  /\ insertReqs # <<>>
  /\ clickedPos = NullPos

\* C15: handleSubmit and its continuations never modify the local marker
\* list: the list changes only in the step that handles a feed event or the
\* reply of the initial fetch, every row of this session in the list was
\* pushed on the feed or fetched, and the store's acceptance of an insert
\* and the handling of its reply leave the list as it was.
C15_NoOptimisticInsert ==
  /\ [](\A i \in 1..Len(markers) :
          markers[i].id \in pushed
          \/ \E k \in 1..Len(fetchData) : fetchData[k].id = markers[i].id)
  /\ [][/\ (markers' # markers =>
              \/ Len(feed') < Len(feed)
              \/ fetchState = "replyOk" /\ fetchState' = "done")
        /\ ((\/ handleSubmit
             \/ insertDone
             \/ insertFailed
             \/ Len(insertReqs') < Len(insertReqs)) =>
              UNCHANGED markers)]_vars

\* the insert of this session succeeded and its reply was handled, and the
\* local list does not hold the row
C15_Witness ==
  /\ hasPlacedMark
  /\ mine # {}
  /\ \A id \in mine : \A i \in 1..Len(markers) : markers[i].id # id
====
